---- MODULE Spec2Model ----
(***************************************************************************)
(* A model of ssh_poll.py: the MySSH object (connect / run / connected /   *)
(* get_exit_status / __del__), the generator returned by _run_poll, and    *)
(* the paramiko collaborator (transports, channels, the remote process)    *)
(* as far as the object observes it.                                       *)
(*                                                                         *)
(* In Spec, SpecT and SpecTwo the caller is single-threaded: while it is   *)
(* blocked inside next() on a generator (InLoop(g)) it makes no other      *)
(* call.  In SpecC two threads call run on the same object, and run is     *)
(* taken statement by statement.  The remote processes and the clock move  *)
(* at any time.                                                            *)
(***************************************************************************)
EXTENDS Integers, Sequences, FiniteSets, TLC

\* ------------------------------------------------------------------ bounds
MaxConnects == 2   \* connect attempts made on the object
MaxChannels == 1   \* channels opened by run
MaxCmd      == 2   \* commands are 1..MaxCmd; command k has k data items to write
MaxTime     == 3   \* the clock stops at MaxTime
MaxLen      == 3   \* raw input texts given to _run_fix_input_data have at most MaxLen characters

\* ------------------------------------------------------------------ values
None == 0          \* Python's None for a transport, client or session handle
NoneStr == <<"None">>   \* Python's None for an optional string

bufsize == 65536

Min(a, b) == IF a < b THEN a ELSE b

\* Characters of an input text: "LF" is a line break, "\\" a backslash.
BS == "\\"
LF == "LF"

\* ------------------------------------------------------------------ strings
RECURSIVE Find(_, _, _)
\* The first index >= i at which sep occurs in s, or 0.
Find(s, sep, i) ==
    IF i + Len(sep) - 1 > Len(s) THEN 0
    ELSE IF SubSeq(s, i, i + Len(sep) - 1) = sep THEN i
    ELSE Find(s, sep, i + 1)

Contains(s, sep) == Find(s, sep, 1) # 0

RECURSIVE Split(_, _)
\* str.split(sep): the pieces between the non-overlapping occurrences of sep,
\* scanned left to right; always at least one piece.
Split(s, sep) ==
    LET i == Find(s, sep, 1) IN
    IF i = 0 THEN <<s>>
    ELSE <<SubSeq(s, 1, i - 1)>> \o Split(SubSeq(s, i + Len(sep), Len(s)), sep)

RECURSIVE Join(_, _)
\* sep.join(lines)
Join(sep, lines) ==
    IF Len(lines) = 0 THEN <<>>
    ELSE IF Len(lines) = 1 THEN lines[1]
    ELSE lines[1] \o sep \o Join(sep, Tail(lines))

\* MySSH._run_fix_input_data
_run_fix_input_data_NoUnescape(input_data) ==
    IF input_data # NoneStr THEN Split(input_data, <<LF>>) ELSE <<>>

_run_fix_input_data(input_data) ==
    IF input_data # NoneStr
    THEN LET fixed == IF Len(input_data) > 0 /\ Contains(input_data, <<BS, "n">>)
                      THEN Join(<<LF>>, Split(input_data, <<BS, "n">>))
                      ELSE input_data
         IN Split(fixed, <<LF>>)
    ELSE <<>>

\* ------------------------------------------------------------------ exceptions
\* The exceptions SSHClient.connect raises, and their base classes.
Base(e) ==
    CASE e = "BadAuthenticationType"   -> "AuthenticationException"
      [] e = "AuthenticationException" -> "SSHException"
      [] e = "SSHException"            -> "Exception"
      [] e = "socket.error"            -> "Exception"
      [] OTHER                         -> "Exception"

RECURSIVE IsInstance(_, _)
IsInstance(e, cls) ==
    IF e = cls THEN TRUE
    ELSE IF e = "Exception" THEN FALSE
    ELSE IsInstance(Base(e), cls)

\* The except clauses of MySSH.connect.
ConnectHandled(e) ==
    IsInstance(e, "socket.error") \/ IsInstance(e, "BadAuthenticationType")

\* What ssh.connect does: succeed, fail on the network, be refused the
\* authentication type, have the password rejected.
ConnectOutcomes ==
    {"ok", "socket.error", "BadAuthenticationType", "AuthenticationException"}

\* ------------------------------------------------------------------ commands
Cmds == 1..MaxCmd

\* The command requests the caller makes, one per command: command k is
\* given k poll intervals; the commands with an even number are given two
\* lines of input, written with the two-character escape, the others none.
InputOf(cmd)   == IF cmd % 2 = 0 THEN <<"a", BS, "n", "b">> ELSE NoneStr
TimeoutOf(cmd) == cmd
Requests ==
    {[cmd |-> k, input_data |-> InputOf(k), timeout |-> TimeoutOf(k)] : k \in Cmds}

\* What the remote command writes to its (combined) output when it runs to
\* its end, and its exit code.
Output(cmd)   == [i \in 1..cmd |-> 10 * cmd + i]
ExitCode(cmd) == cmd % 2

Transports == 1..MaxConnects

VARIABLES
    transport,  \* self.transport: None or a transport
    ssh,        \* self.ssh: None or the SSHClient of the latest connect
    attrs,      \* TRUE once self.hostname, self.username, self.port exist
    session,    \* self.session: None (attribute not set) or a channel
    nconn,      \* connect attempts so far; attempt k makes client k, transport k
    tstate,     \* per transport: obtained (by a successful connect), closes (calls of close())
    chan,       \* per channel: the paramiko Channel and its remote process
    gen,        \* per channel: the generator made by _run_poll for it
    ret,        \* outcome of the caller's latest call
    now,        \* the clock, in poll intervals
    thr,        \* per thread of SpecC: where it is in run, and its locals
    fix         \* a text given to _run_fix_input_data on its own, and the result

vars == <<transport, ssh, attrs, session, nconn, tstate, chan, gen, ret, now, thr, fix>>

\* The channels the transport can open, and the generators run can make (the
\* k-th call of _run_poll makes generator k).
Channels == DOMAIN chan
Gens     == DOMAIN gen
Threads  == DOMAIN thr

\* kind: "bool" (ok), "pair" (status, output), "generator" (gen), "status"
\* (status), "raise" (exc: the exception that left the call).
NoRet == [op |-> "none", kind |-> "none", ok |-> FALSE, status |-> 0,
          output |-> <<>>, gen |-> None, exc |-> "none"]

\* log: the calls made on the channel, in order. closed: close() was called
\* on it. broken: the connection under it was lost.
NoChan == [opened |-> FALSE, transport |-> None, log |-> <<>>, cmd |-> 0,
           blocking |-> TRUE, wrote |-> 0, buf |-> <<>>, exited |-> FALSE,
           stdin |-> <<>>, closed |-> FALSE, broken |-> FALSE]

\* session: the channel passed to _run_poll. own: the channel the run call
\* that made the generator got from open_session.
NoGen == [pc |-> "none", session |-> None, own |-> None,
          start_secs |-> 0, timeout |-> 0,
          input_data |-> <<>>, input_idx |-> 0, timeout_flag |-> FALSE,
          yielded |-> <<>>]

\* pc: the statement of run the thread is at ("idle": not in run). cmd,
\* input_data, timeout: run's parameters. own: the channel its open_session
\* returned. used: the channels its set_combine_stderr, get_pty and
\* exec_command calls went to, in order.
NoThr == [pc |-> "idle", cmd |-> 0, input_data |-> <<>>, timeout |-> 0,
          own |-> None, used |-> <<>>]

NoFix == [raw |-> NoneStr, done |-> FALSE, lines |-> <<>>]

\* MySSH.__init__
Init ==
    /\ transport = None
    /\ ssh = None
    /\ attrs = FALSE
    /\ session = None
    /\ nconn = 0
    /\ tstate = [t \in Transports |-> [obtained |-> FALSE, closes |-> 0]]
    /\ chan = [c \in 1..MaxChannels |-> NoChan]
    /\ gen = [g \in 1..MaxChannels |-> NoGen]
    /\ ret = NoRet
    /\ now = 0
    /\ thr = [t \in {1} |-> NoThr]
    /\ fix = NoFix

\* The caller is not inside a call: no generator is between next() and yield.
\* A generator is "running" at the head of the while loop of the next() call
\* in progress, and "spinning" there once a pass of that call found no data.
InLoop(g) == gen[g].pc \in {"running", "spinning"}

CallerFree == \A g \in Gens : ~InLoop(g)

\* MySSH.connected
connected == transport # None

\* MySSH.connect, with o what ssh.connect does on this attempt.
Connect(o) ==
    /\ CallerFree
    /\ nconn < MaxConnects
    /\ nconn' = nconn + 1
    /\ attrs' = TRUE
    /\ ssh' = nconn + 1
    /\ IF o = "ok"
       THEN /\ transport' = nconn + 1
            /\ tstate' = [tstate EXCEPT ![nconn + 1].obtained = TRUE]
            /\ ret' = [NoRet EXCEPT !.op = "connect", !.kind = "bool", !.ok = TRUE]
       ELSE IF ConnectHandled(o)
       THEN /\ transport' = None
            /\ tstate' = tstate
            /\ ret' = [NoRet EXCEPT !.op = "connect", !.kind = "bool", !.ok = FALSE]
       ELSE /\ transport' = transport
            /\ tstate' = tstate
            /\ ret' = [NoRet EXCEPT !.op = "connect", !.kind = "raise", !.exc = o]
    /\ UNCHANGED <<session, chan, gen, now, thr, fix>>

\* MySSH.__del__
Del ==
    /\ CallerFree
    /\ IF transport # None
       THEN /\ tstate' = [tstate EXCEPT ![transport].closes = @ + 1]
            /\ transport' = None
       ELSE UNCHANGED <<tstate, transport>>
    /\ UNCHANGED <<ssh, attrs, session, nconn, chan, gen, ret, now, thr, fix>>

\* The channel the next open_session returns, or None when the model has no more.
NextChan ==
    IF \E c \in Channels : ~chan[c].opened
    THEN CHOOSE c \in Channels :
            ~chan[c].opened /\ \A d \in Channels : d < c => chan[d].opened
    ELSE None

\* The steps run takes on the channel it opened, in order.
OpenSteps == <<"open_session", "set_combine_stderr", "get_pty", "exec_command">>

\* MySSH.run: a plain function; calling _run_poll only creates the generator.
Run(cmd, input_data, timeout) ==
    /\ CallerFree
    /\ IF transport = None
       THEN /\ ret' = IF attrs
                      THEN [NoRet EXCEPT !.op = "run", !.kind = "pair", !.status = -1,
                                         !.output = <<"ERROR: connection not established\n">>]
                      ELSE \* self.username is read before connect ever set it
                           [NoRet EXCEPT !.op = "run", !.kind = "raise",
                                         !.exc = "AttributeError"]
            /\ UNCHANGED <<session, chan, gen>>
       ELSE /\ NextChan # None
            /\ LET c == NextChan IN
               /\ session' = c
               /\ chan' = [chan EXCEPT ![c] =
                             [NoChan EXCEPT !.opened = TRUE, !.transport = transport,
                                            !.log = OpenSteps, !.cmd = cmd]]
               /\ gen' = [gen EXCEPT ![c] =
                             [NoGen EXCEPT !.pc = "created", !.timeout = timeout,
                                           !.session = session', !.own = c,
                                           !.input_data = _run_fix_input_data(input_data)]]
               /\ ret' = [NoRet EXCEPT !.op = "run", !.kind = "generator", !.gen = c]
    /\ UNCHANGED <<transport, ssh, attrs, nconn, tstate, now, thr, fix>>

\* The channel is gone without the process having been seen to exit: the
\* connection was lost, or its transport was closed.
Dead(c) ==
    /\ chan[c].opened
    /\ chan[c].broken \/ tstate[chan[c].transport].closes > 0

\* MySSH.get_exit_status: recv_exit_status returns once the process has
\* exited (its exit code) or the channel is gone (-1), and waits until then.
GetExitStatus ==
    /\ CallerFree
    /\ IF session = None
       THEN ret' = [NoRet EXCEPT !.op = "get_exit_status", !.kind = "raise",
                                 !.exc = "AttributeError"]
       ELSE /\ chan[session].exited \/ Dead(session)
            /\ ret' = [NoRet EXCEPT !.op = "get_exit_status", !.kind = "status",
                                    !.status = IF chan[session].exited
                                               THEN ExitCode(chan[session].cmd)
                                               ELSE -1]
    /\ UNCHANGED <<transport, ssh, attrs, session, nconn, tstate, chan, gen, now,
                   thr, fix>>

\* ------------------------------------------------------------------ _run_poll
\* session.recv_ready()
recv_ready(c) == Len(chan[c].buf) > 0

\* session.recv(nbytes) handing over n items: the data returned, the data left.
RecvData_OffByOne(b, n) == SubSeq(b, 2, n)

RecvData(b, n) == SubSeq(b, 1, n)
RecvRest(b, n) == SubSeq(b, n + 1, Len(b))

\* stdin.channel.closed: the channel was closed, by the end of the remote
\* process, the loss of the connection or a call of close().
channel_closed(c) == chan[c].exited \/ Dead(c) \/ chan[c].closed

\* MySSH._run_send_input: what stdin holds after the call.
_run_send_input(c, input_data) ==
    IF input_data # NoneStr /\ ~channel_closed(c)
    THEN Append(chan[c].stdin, input_data)
    ELSE chan[c].stdin

\* The state of the poll as the generator shows it: ERROR once an exception
\* left the generator, RUNNING until the generator returns, and then
\* TIMED_OUT when timeout_flag was set.
PollState(g) ==
    IF gen[g].pc = "raised" THEN "ERROR"
    ELSE IF gen[g].pc # "finished" THEN "RUNNING"
    ELSE IF gen[g].timeout_flag THEN "TIMED_OUT"
    ELSE "COMPLETED"

\* The channel generator g polls: its parameter session.
PollSession_SelfSession(g) == session

PollSession(g) == gen[g].session

\* The caller asks generator c for its next chunk. On the first request the
\* body runs from its top to the head of the while loop.
NextCall(g) ==
    /\ CallerFree
    /\ gen[g].pc \in {"created", "suspended"}
    /\ IF gen[g].pc = "created"
       THEN /\ gen' = [gen EXCEPT ![g].pc = "running",
                                  ![g].input_idx = 0, ![g].timeout_flag = FALSE,
                                  ![g].start_secs = now]
            /\ chan' = [chan EXCEPT ![PollSession(g)].blocking = FALSE]
       ELSE /\ gen' = [gen EXCEPT ![g].pc = "running"]
            /\ chan' = chan
    /\ UNCHANGED <<transport, ssh, attrs, session, nconn, tstate, ret, now, thr, fix>>

\* One pass of the while loop of generator g (lines 226-229); the pass runs only
\* while the caller is inside next(g).
PollIter_Background(g) ==
    /\ gen[g].pc \in {"created", "suspended", "running", "spinning"}
    /\ LET c == PollSession(g) IN
       IF recv_ready(c)
       THEN \E n \in 1..Min(Len(chan[c].buf), bufsize) :
               /\ chan' = [chan EXCEPT ![c].buf = RecvRest(@, n)]
               /\ gen' = [gen EXCEPT ![g].pc = "suspended",
                                     ![g].yielded = @ \o RecvData(chan[c].buf, n)]
               /\ ret' = ret
       ELSE /\ gen' = [gen EXCEPT ![g].pc = "spinning"]
            /\ UNCHANGED <<chan, ret>>
    /\ UNCHANGED <<transport, ssh, attrs, session, nconn, tstate, now, thr, fix>>

PollIter(g) ==
    /\ InLoop(g)
    /\ LET c == PollSession(g) IN
       IF recv_ready(c)
       THEN \E n \in 1..Min(Len(chan[c].buf), bufsize) :
               /\ chan' = [chan EXCEPT ![c].buf = RecvRest(@, n)]
               /\ gen' = [gen EXCEPT ![g].pc = "suspended",
                                     ![g].yielded = @ \o RecvData(chan[c].buf, n)]
               /\ ret' = ret
       ELSE /\ gen' = [gen EXCEPT ![g].pc = "spinning"]
            /\ UNCHANGED <<chan, ret>>
    /\ UNCHANGED <<transport, ssh, attrs, session, nconn, tstate, now, thr, fix>>

\* ------------------------------------------------------------------ environment
Executing(c) ==
    /\ chan[c].opened
    /\ chan[c].cmd # 0
    /\ ~chan[c].exited
    /\ ~Dead(c)

\* The remote command writes its next data item to the channel.
RemoteWrite(c) ==
    /\ Executing(c)
    /\ chan[c].wrote < Len(Output(chan[c].cmd))
    /\ chan' = [chan EXCEPT ![c].wrote = @ + 1,
                            ![c].buf = Append(@, Output(chan[c].cmd)[chan[c].wrote + 1])]
    /\ UNCHANGED <<transport, ssh, attrs, session, nconn, tstate, gen, ret, now,
                   thr, fix>>

\* The remote command exits: at its end, or earlier (it fails, it is killed),
\* and then with what it wrote so far.
RemoteExit(c) ==
    /\ Executing(c)
    /\ chan' = [chan EXCEPT ![c].exited = TRUE]
    /\ UNCHANGED <<transport, ssh, attrs, session, nconn, tstate, gen, ret, now,
                   thr, fix>>

\* The connection under channel c is lost while its command runs.
ChannelBreak(c) ==
    /\ Executing(c)
    /\ chan' = [chan EXCEPT ![c].broken = TRUE]
    /\ UNCHANGED <<transport, ssh, attrs, session, nconn, tstate, gen, ret, now,
                   thr, fix>>

\* One poll interval passes.
Tick ==
    /\ now < MaxTime
    /\ now' = now + 1
    /\ UNCHANGED <<transport, ssh, attrs, session, nconn, tstate, chan, gen, ret,
                   thr, fix>>

Next ==
    \/ \E o \in ConnectOutcomes : Connect(o)
    \/ Del
    \/ \E r \in Requests : Run(r.cmd, r.input_data, r.timeout)
    \/ GetExitStatus
    \/ \E g \in Gens : NextCall(g)
    \/ \E g \in Gens : PollIter(g)
    \/ \E c \in Channels : RemoteWrite(c)
    \/ \E c \in Channels : RemoteExit(c)

\* The program and the remote side: no step of it reads the clock.
Spec == Init /\ [][Next]_vars

\* The same with the passing of time.
NextT == Next \/ Tick

SpecT == Init /\ [][NextT]_vars

\* The same with the passing of time and the loss of connections.
NextB == NextT \/ \E c \in Channels : ChannelBreak(c)

SpecB == Init /\ [][NextB]_vars

\* ------------------------------------------------------------------ run, by statement
\* MySSH.run taken one statement at a time by thread t: what Run does in one
\* step when nothing else touches the object in between.
ThreadsIdle == \A t \in Threads : thr[t].pc = "idle"

NextGen ==
    IF \E g \in Gens : gen[g].pc = "none"
    THEN CHOOSE g \in Gens : gen[g].pc = "none" /\ \A h \in Gens : h < g => gen[h].pc # "none"
    ELSE None

\* Lines 125-134: the connection check, then the input is fixed.
RunBegin(t, r) ==
    /\ CallerFree
    /\ thr[t].pc = "idle"
    /\ IF transport = None
       THEN /\ ret' = IF attrs
                      THEN [NoRet EXCEPT !.op = "run", !.kind = "pair", !.status = -1,
                                         !.output = <<"ERROR: connection not established\n">>]
                      ELSE [NoRet EXCEPT !.op = "run", !.kind = "raise",
                                         !.exc = "AttributeError"]
            /\ thr' = thr
       ELSE /\ Cardinality({c \in Channels : ~chan[c].opened})
                  > Cardinality({u \in Threads : thr[u].pc # "idle"})
            /\ thr' = [thr EXCEPT ![t] =
                          [NoThr EXCEPT !.pc = "open", !.cmd = r.cmd, !.timeout = r.timeout,
                                        !.input_data = _run_fix_input_data(r.input_data)]]
            /\ ret' = ret
    /\ UNCHANGED <<transport, ssh, attrs, session, nconn, tstate, chan, gen, now, fix>>

\* Line 138: self.session = self.transport.open_session()
RunOpen(t) ==
    /\ thr[t].pc = "open"
    /\ transport # None
    /\ NextChan # None
    /\ LET c == NextChan IN
       /\ chan' = [chan EXCEPT ![c] =
                     [NoChan EXCEPT !.opened = TRUE, !.transport = transport,
                                    !.log = <<"open_session">>]]
       /\ session' = c
       /\ thr' = [thr EXCEPT ![t].pc = "combine", ![t].own = c]
    /\ UNCHANGED <<transport, ssh, attrs, nconn, tstate, gen, ret, now, fix>>

\* A call made on self.session, whatever channel that is by now.
SessionCall(t, name, pc) ==
    /\ chan' = [chan EXCEPT ![session].log = Append(@, name),
                            ![session].cmd = IF name = "exec_command" /\ @ = 0
                                             THEN thr[t].cmd ELSE @]
    /\ thr' = [thr EXCEPT ![t].pc = pc, ![t].used = Append(@, session)]
    /\ UNCHANGED <<transport, ssh, attrs, session, nconn, tstate, gen, ret, now, fix>>

\* Line 139: self.session.set_combine_stderr(True)
RunCombine_Forgotten(t) ==
    /\ thr[t].pc = "combine"
    /\ thr' = [thr EXCEPT ![t].pc = "pty", ![t].used = Append(@, session)]
    /\ UNCHANGED <<transport, ssh, attrs, session, nconn, tstate, chan, gen, ret, now, fix>>

RunCombine(t) ==
    /\ thr[t].pc = "combine"
    /\ SessionCall(t, "set_combine_stderr", "pty")

\* Line 140: self.session.get_pty()
RunPty(t) ==
    /\ thr[t].pc = "pty"
    /\ SessionCall(t, "get_pty", "exec")

\* Line 141: self.session.exec_command(cmd)
RunExec(t) ==
    /\ thr[t].pc = "exec"
    /\ SessionCall(t, "exec_command", "poll")

\* Lines 142-143: output = self._run_poll(self.session, ...); return output
RunPoll(t) ==
    /\ thr[t].pc = "poll"
    /\ NextGen # None
    /\ gen' = [gen EXCEPT ![NextGen] =
                  [NoGen EXCEPT !.pc = "created", !.timeout = thr[t].timeout,
                                !.session = session, !.own = thr[t].own,
                                !.input_data = thr[t].input_data]]
    /\ ret' = [NoRet EXCEPT !.op = "run", !.kind = "generator", !.gen = NextGen]
    /\ thr' = [thr EXCEPT ![t].pc = "idle"]
    /\ UNCHANGED <<transport, ssh, attrs, session, nconn, tstate, chan, now, fix>>

\* The statements of run, the caller's other calls between run calls, the
\* generators and the remote side.
NextS ==
    \/ \E o \in ConnectOutcomes : ThreadsIdle /\ Connect(o)
    \/ ThreadsIdle /\ Del
    \/ \E t \in Threads, r \in Requests : RunBegin(t, r)
    \/ \E t \in Threads : RunOpen(t)
    \/ \E t \in Threads : RunCombine(t)
    \/ \E t \in Threads : RunPty(t)
    \/ \E t \in Threads : RunExec(t)
    \/ \E t \in Threads : RunPoll(t)
    \/ \E g \in Gens : ThreadsIdle /\ NextCall(g)
    \/ \E g \in Gens : PollIter(g)
    \/ \E c \in Channels : RemoteWrite(c)
    \/ \E c \in Channels : RemoteExit(c)

\* One thread.
SpecS == Init /\ [][NextS]_vars

\* Two sessions on the object, one thread: the run calls come one after the
\* other.
InitTwo ==
    /\ transport = None
    /\ ssh = None
    /\ attrs = FALSE
    /\ session = None
    /\ nconn = 0
    /\ tstate = [t \in Transports |-> [obtained |-> FALSE, closes |-> 0]]
    /\ chan = [c \in {1, 2} |-> NoChan]
    /\ gen = [g \in {1, 2} |-> NoGen]
    /\ ret = NoRet
    /\ now = 0
    /\ thr = [t \in {1} |-> NoThr]
    /\ fix = NoFix

SpecTwo == InitTwo /\ [][Next]_vars

\* Two threads, each calling run on the same object.
InitC ==
    /\ transport = None
    /\ ssh = None
    /\ attrs = FALSE
    /\ session = None
    /\ nconn = 0
    /\ tstate = [t \in Transports |-> [obtained |-> FALSE, closes |-> 0]]
    /\ chan = [c \in {1, 2} |-> NoChan]
    /\ gen = [g \in {1, 2} |-> NoGen]
    /\ ret = NoRet
    /\ now = 0
    /\ thr = [t \in {1, 2} |-> NoThr]
    /\ fix = NoFix

\* The object is connected by one thread before the others use it; nothing
\* deletes it while they do.
NextC ==
    \/ ThreadsIdle /\ nconn = 0 /\ Connect("ok")
    \/ \E t \in Threads, r \in Requests : RunBegin(t, r)
    \/ \E t \in Threads : RunOpen(t)
    \/ \E t \in Threads : RunCombine(t)
    \/ \E t \in Threads : RunPty(t)
    \/ \E t \in Threads : RunExec(t)
    \/ \E t \in Threads : RunPoll(t)
    \/ \E g \in Gens : NextCall(g)
    \/ \E g \in Gens : PollIter(g)
    \/ \E c \in Channels : RemoteWrite(c)
    \/ \E c \in Channels : RemoteExit(c)

SpecC == InitC /\ [][NextC]_vars

\* ------------------------------------------------------------------ _run_fix_input_data alone
\* The characters that matter to _run_fix_input_data: an ordinary one, the
\* backslash, the letter n, the line break.
Alphabet == {"a", BS, "n", LF}

\* The arguments: None and every text of at most MaxLen characters.
Raws == {NoneStr} \cup UNION {[1..n -> Alphabet] : n \in 0..MaxLen}

InitFix ==
    /\ transport = None
    /\ ssh = None
    /\ attrs = FALSE
    /\ session = None
    /\ nconn = 0
    /\ tstate = [t \in Transports |-> [obtained |-> FALSE, closes |-> 0]]
    /\ chan = [c \in 1..MaxChannels |-> NoChan]
    /\ gen = [g \in 1..MaxChannels |-> NoGen]
    /\ ret = NoRet
    /\ now = 0
    /\ thr = [t \in {1} |-> NoThr]
    /\ \E raw \in Raws : fix = [NoFix EXCEPT !.raw = raw]

\* The call _run_fix_input_data(raw).
Fix ==
    /\ ~fix.done
    /\ fix' = [fix EXCEPT !.done = TRUE, !.lines = _run_fix_input_data(fix.raw)]
    /\ UNCHANGED <<transport, ssh, attrs, session, nconn, tstate, chan, gen, ret, now, thr>>

NextFix == Fix

SpecFix == InitFix /\ [][NextFix]_vars

\* ------------------------------------------------------------------ claims
\* The calls as steps, for the properties that speak of a call.
RunCalled == \E r \in Requests : Run(r.cmd, r.input_data, r.timeout)

\* All the data the remote command of channel c wrote to the channel.
Written(c) == SubSeq(Output(chan[c].cmd), 1, chan[c].wrote)

IsPrefix(s, t) == Len(s) <= Len(t) /\ SubSeq(t, 1, Len(s)) = s

\* C1: every run call made while no transport is held returns the pair
\* (-1, error message), raises nothing, opens no channel and makes no generator.
C1_RunDisconnectedReturnsSentinel ==
    [][(transport = None /\ RunCalled) =>
          /\ ret'.kind = "pair"
          /\ ret'.status = -1
          /\ ret'.output # <<>>
          /\ chan' = chan
          /\ gen' = gen]_vars

\* C2: a pass of the poll loop that finds the remote process exited and no
\* data to read ends the poll in COMPLETED.
C2_PollCompletes ==
    [][\A c \in Channels :
          (PollIter(c) /\ chan[c].exited /\ ~recv_ready(c)) =>
              PollState(c)' = "COMPLETED"]_vars

\* C3: a pass of the poll loop made when the timeout has elapsed since the
\* poll started ends the poll in TIMED_OUT, whatever input or output remains.
C3_PollTimesOut ==
    [][\A c \in Channels :
          (PollIter(c) /\ now >= gen[c].start_secs + gen[c].timeout) =>
              PollState(c)' = "TIMED_OUT"]_vars

\* C4: for every channel, the chunks handed to the caller followed by the
\* data still unread in the channel are exactly the data the remote command
\* wrote, in order; so the chunks are always a prefix of that data, and a
\* poll that ended in COMPLETED has handed over all of it.
C4_NoOutputLost ==
    \A c \in Channels :
        /\ gen[c].yielded \o chan[c].buf = Written(c)
        /\ IsPrefix(gen[c].yielded, Written(c))
        /\ PollState(c) = "COMPLETED" => gen[c].yielded = Written(c)

\* C4 witness: a command wrote two items and exited, and the caller has been
\* handed both, the generator waiting at its yield.
C4_Witness ==
    \E c \in Channels :
        /\ chan[c].exited
        /\ chan[c].wrote = 2
        /\ gen[c].pc = "suspended"
        /\ gen[c].yielded = Written(c)

\* C5: a pass of the poll loop that finds no data, with queued lines left and
\* the channel's input side open, writes exactly the next queued line to the
\* channel and advances the input index by one.
C5_InputDelivered ==
    [][\A c \in Channels :
          (/\ PollIter(c)
           /\ ~recv_ready(c)
           /\ gen[c].input_idx < Len(gen[c].input_data)
           /\ ~channel_closed(c)) =>
              /\ gen'[c].input_idx = gen[c].input_idx + 1
              /\ chan'[c].stdin =
                    _run_send_input(c, gen[c].input_data[gen[c].input_idx + 1])]_vars

\* C6: every connect attempt that fails returns false, raises nothing and
\* leaves the object without a transport.
C6_ConnectFailureContained ==
    [][\A o \in ConnectOutcomes \ {"ok"} :
          Connect(o) =>
              /\ ret'.kind = "bool"
              /\ ret'.ok = FALSE
              /\ transport' = None]_vars

\* C7: every run call made on a connected object returns a pair (status,
\* output): the exit code of the command and the data it wrote.
C7_RunReturnsStatusAndOutput ==
    [][(transport # None /\ RunCalled) =>
          /\ ret'.kind = "pair"
          /\ chan'[session'].exited
          /\ ret'.status = ExitCode(chan'[session'].cmd)
          /\ ret'.output = SubSeq(Output(chan'[session'].cmd), 1, chan'[session'].wrote)]_vars

\* C8: a pass of the poll loop that finds no data hands control back to the
\* caller: the generator is no longer inside its loop.
C8_NextReturnsAfterOnePass ==
    [][\A c \in Channels :
          (PollIter(c) /\ ~recv_ready(c)) => ~InLoop(c)']_vars

\* C9: connected() is true exactly when the latest connect attempt succeeded
\* and its transport has not been closed, and the transport held is then the
\* one of the latest attempt.
C9_ConnectedIffLatestConnect ==
    /\ connected <=> (/\ nconn > 0
                      /\ tstate[nconn].obtained
                      /\ tstate[nconn].closes = 0)
    /\ connected => transport = ssh

\* C10: no transport is closed twice, none is closed that no connect
\* obtained, and every obtained transport the object no longer holds has
\* been closed (once).
C10_TransportClosedOnce ==
    \A t \in Transports :
        /\ tstate[t].closes <= 1
        /\ ~tstate[t].obtained => tstate[t].closes = 0
        /\ (tstate[t].obtained /\ transport # t) => tstate[t].closes = 1

\* C11: opening a session follows a fixed order. A channel is only opened on
\* a connection the check found; on it the channel is allocated, stderr is
\* merged into stdout, a pty is requested and the command is started, each
\* once and in this order; nothing is read from the channel (no generator on
\* it, still blocking) before all four are done.
C11_SessionOpenOrder ==
    \A c \in Channels : chan[c].opened =>
        /\ chan[c].transport # None
        /\ IsPrefix(chan[c].log,
                    <<"open_session", "set_combine_stderr", "get_pty", "exec_command">>)
        /\ ( \/ ~chan[c].blocking
             \/ chan[c].cmd # 0
             \/ \E g \in Gens : gen[g].pc # "none" /\ gen[g].session = c )
           => chan[c].log = <<"open_session", "set_combine_stderr", "get_pty", "exec_command">>

\* A session opened statement by statement whose output has been read.
C11_Witness ==
    \E g \in Gens :
        /\ gen[g].yielded # <<>>
        /\ Len(chan[gen[g].session].log) = 4
        /\ ThreadsIdle

\* C12: a pass of the poll loop over a broken channel with nothing left to
\* read ends the poll in ERROR, a terminal state other than COMPLETED and
\* TIMED_OUT.
C12_BrokenChannelEndsInError ==
    [][\A g \in Gens :
          (PollIter(g) /\ chan[PollSession(g)].broken /\ ~recv_ready(PollSession(g))) =>
              PollState(g)' = "ERROR"]_vars

\* C13: a pass of the poll loop made once the timeout has elapsed leaves the
\* channel closed when it hands control back to the caller.
C13_AbnormalEndClosesChannel ==
    [][\A g \in Gens :
          ( /\ PollIter(g)
            /\ now >= gen[g].start_secs + gen[g].timeout
            /\ ~InLoop(g)' ) =>
              chan'[PollSession(g)].closed]_vars

\* C14: with two threads in run on the same connected object, each thread's
\* set_combine_stderr, get_pty and exec_command go to the channel that
\* thread opened, no channel is asked to execute more than one command, and
\* each generator polls the channel its own run call opened.
C14_ConcurrentRunsIsolated ==
    /\ \A t \in Threads : \A i \in 1..Len(thr[t].used) : thr[t].used[i] = thr[t].own
    /\ \A c \in Channels :
          Cardinality({i \in 1..Len(chan[c].log) : chan[c].log[i] = "exec_command"}) <= 1
    /\ \A g \in Gens : gen[g].pc # "none" => gen[g].session = gen[g].own

\* C15: two sessions run one after the other on the same connection are
\* independent. Every run call opened a channel of its own, its generator
\* polls that channel, and what the generator has handed over followed by
\* what is still unread on that channel is exactly the output of its own
\* command, also for a first generator advanced after the second run.
C15_SequentialSessionsIndependent ==
    /\ \A g \in Gens : gen[g].pc # "none" =>
          /\ gen[g].session = gen[g].own
          /\ chan[gen[g].own].opened
          /\ gen[g].yielded \o chan[gen[g].own].buf = Written(gen[g].own)
    /\ \A g, h \in Gens :
          (g # h /\ gen[g].pc # "none" /\ gen[h].pc # "none") => gen[g].own # gen[h].own

\* The generator of the first run is in its loop (entered after the second
\* run: run is not called from inside the loop), with data to read, and the
\* second run, of another command, has written output.
C15_Witness ==
    \E g, h \in Gens :
        /\ gen[g].pc # "none" /\ gen[h].pc # "none"
        /\ gen[h].own = session /\ gen[g].own # session
        /\ chan[gen[g].own].cmd # chan[gen[h].own].cmd
        /\ chan[gen[g].own].transport = chan[gen[h].own].transport
        /\ chan[gen[h].own].wrote > 0
        /\ InLoop(g) /\ recv_ready(gen[g].own)
        /\ gen[g].yielded # <<>>

\* C17: fixing an absent input (None) and fixing the empty text both give the
\* empty sequence of lines.
C17_EmptyInputGivesNoLines ==
    (fix.done /\ fix.raw \in {NoneStr, <<>>}) => fix.lines = <<>>

RECURSIVE Unescape(_)
\* The text with every backslash-n pair, taken left to right, turned into a
\* line break.
Unescape(s) ==
    IF Len(s) = 0 THEN <<>>
    ELSE IF Len(s) >= 2 /\ s[1] = BS /\ s[2] = "n" THEN <<LF>> \o Unescape(SubSeq(s, 3, Len(s)))
    ELSE <<s[1]>> \o Unescape(Tail(s))

\* The text s with the n characters from position i replaced by the text r.
Replaced(s, i, n, r) == SubSeq(s, 1, i - 1) \o r \o SubSeq(s, i + n, Len(s))

\* C18: for a non-empty text the fixed lines are the pieces of the fully
\* unescaped text between line breaks, and they stay the same when any one
\* line break of the text is written as backslash-n instead, or any one
\* backslash-n as a line break.
C18_EscapeAndBreakEquivalent ==
    (fix.done /\ fix.raw # NoneStr /\ Len(fix.raw) > 0) =>
        /\ fix.lines = Split(Unescape(fix.raw), <<LF>>)
        /\ \A i \in 1..Len(fix.raw) :
              fix.raw[i] = LF =>
                  _run_fix_input_data(Replaced(fix.raw, i, 1, <<BS, "n">>)) = fix.lines
        /\ \A i \in 1..(Len(fix.raw) - 1) :
              (fix.raw[i] = BS /\ fix.raw[i + 1] = "n") =>
                  _run_fix_input_data(Replaced(fix.raw, i, 2, <<LF>>)) = fix.lines

\* A text with both forms of break has been fixed into three lines.
C18_Witness ==
    /\ fix.done
    /\ fix.raw # NoneStr
    /\ Contains(fix.raw, <<BS, "n">>)
    /\ Contains(fix.raw, <<LF>>)
    /\ Len(fix.lines) = 3

\* C19: a get_exit_status call made when the most recent run call did not
\* open a session (it returned the no-connection sentinel or failed) does
\* not return an exit status.
C19_ExitStatusOfLatestRun ==
    [][(GetExitStatus /\ ret.op = "run" /\ ret.kind # "generator") =>
          ret'.kind # "status"]_vars

====
